---- MODULE Spec2Model ----
(***************************************************************************)
(* Model of docker-acme's app.py: the certificate renewal daemon.          *)
(*                                                                         *)
(* The state is the part of the file system the daemon works on (key, CSR  *)
(* and certificate per name, the backup directory, dhparam.pem, the        *)
(* force_crt_update marker, crt_domains.ini), the process' environment,    *)
(* the main loop's local variables and its position.  Calls of openssl,    *)
(* of the ACME client and of the intermediate download either succeed or   *)
(* fail; which one is chosen nondeterministically per pipeline run.        *)
(***************************************************************************)
EXTENDS Integers, Sequences, FiniteSets, TLC

\* ------------------------------------------------------------------ bounds
\* The age of a file is counted in whole days, as (datetime.now() - t).days
\* does, up to MaxAge days.
MaxAge == 1
\* Number of fresh keys, and of certificates, handed out per name.
MaxSerial == 2
\* Ticks of one Wait (the source counts 3600 of them, app.py line 285).
WaitCeiling == 2

\* ----------------------------------------------------------- configuration
\* CRT_MAX_AGE, in days (app.py line 26; the default there is 30).
crt_max_age == 1
\* DH_MAX_AGE is unset (None) or a number of days (app.py line 31).
DhUnset == -1
DhMaxAges == {DhUnset, 1}
\* CHAINED_CRT (app.py line 27).
chained_crt == "true"
\* CONTAINER_NOTIFY (app.py line 30): the comma separated default targets.
container_notify == <<"c0">>

Names == {"a", "b"}

\* A comma separated domain list, split at ",": 0 is the empty string.
\* os.environ: the cert_<name> entries, in iteration order.
Environments ==
    { << [name |-> "a", value |-> <<2, 0, 1, 2>>] >> }

\* crt_domains.ini: absent (a file configparser cannot parse is read the
\* same way: config.read raises), or a list of sections.  A section may
\* lack a key.
Section(n, d, t) ==
    [name |-> n, has_domains |-> TRUE, domains |-> d,
     has_notify |-> TRUE, notify |-> t]
\* A section without the "notify" key.
SectionNoNotify(n, d) ==
    [name |-> n, has_domains |-> TRUE, domains |-> d,
     has_notify |-> FALSE, notify |-> <<>>]
IniAbsent == [state |-> "absent", sections |-> <<>>]
IniFiles ==
    { IniAbsent,
      [state |-> "ok",
       sections |-> << Section("a", <<1>>, <<"c1">>),
                       Section("b", <<2>>, <<"c2">>) >>],
      [state |-> "ok",
       sections |-> << Section("b", <<2>>, <<"c2">>) >>],
      [state |-> "ok",
       sections |-> << SectionNoNotify("a", <<1>>),
                       Section("b", <<2>>, <<"c2">>) >>] }

\* -------------------------------------------------------------- file system
\* Time is kept as ages: a file that carries a time carries the whole days
\* since then.
\* A key file holds a key (the id > 0 of its content) or is absent (0).
NoKey == 0
\* A CSR file: the key it was made with and the SAN entries in file order.
NoCsr == [present |-> FALSE, key |-> 0, san |-> <<>>]
\* A certificate file: absent (id 0), empty because it was opened for
\* writing and not yet written (id -1), or a certificate: the id of its
\* content, its SAN entries, the age of its notBefore, chained or not.
NoCrt == [id |-> 0, san |-> <<>>, age |-> 0, chain |-> FALSE]
EmptyCrt == [id |-> -1, san |-> <<>>, age |-> 0, chain |-> FALSE]
\* A backup file [name, id]: the name it was copied from and the id of the
\* content it holds.  The timestamp of its file name is not kept: copies of
\* one content are one entry.

\* How the program starts: with DH_MAX_AGE set and crt/ empty, or with
\* DH_MAX_AGE unset and crt/ (os.makedirs(crt_dir, exist_ok=True) takes the
\* directory as it is) holding the CSR and the certificate of "a", less
\* than a day old, without the key file.
Starts ==
    { [dh_max_age |-> 1,
       keyf |-> [n \in Names |-> NoKey],
       csrf |-> [n \in Names |-> NoCsr],
       crtf |-> [n \in Names |-> NoCrt],
       serial |-> [n \in Names |-> [key |-> 0, crt |-> 0]]],
      [dh_max_age |-> DhUnset,
       keyf |-> [n \in Names |-> NoKey],
       csrf |-> [n \in Names |->
                   IF n = "a"
                   THEN [present |-> TRUE, key |-> 1, san |-> <<1, 2>>]
                   ELSE NoCsr],
       crtf |-> [n \in Names |->
                   IF n = "a"
                   THEN [id |-> 1, san |-> <<1, 2>>, age |-> 0,
                         chain |-> TRUE]
                   ELSE NoCrt],
       serial |-> [n \in Names |->
                     IF n = "a" THEN [key |-> 1, crt |-> 1]
                     ELSE [key |-> 0, crt |-> 0]]] }

VARIABLES
    pc,                \* position of the main loop
    serial,            \* per name: keys and certificates handed out so far
    environ,           \* os.environ
    dh_max_age,        \* DH_MAX_AGE
    ini,               \* tmp/crt_domains.ini
    force_crt_update,  \* tmp/force_crt_update exists
    keyf, csrf, crtf,  \* crt/<name>.key, .csr, .crt
    bak_key, bak_crt,  \* crt/backup/<timestamp>_<name>.key, .crt
    dhparam,           \* age of the mtime of crt/dhparam.pem, -1: absent
    certs, notifies,   \* the dicts of the main loop, in insertion order
    idx,               \* position of "for crt, domains in certs.items()"
    changed,           \* the flag of the main loop
    signed_crt,        \* the chain create_crt is writing
    counter,           \* the counter of the wait loop
    run,               \* per name: how its pipeline run of this pass ended;
                       \* before the run, how the run of the previous
                       \* pass ended if that was on the same domains
    prior,             \* the material before the run that last signed
    signalled,         \* the containers signalled in this pass, in order
    everKeys           \* per name: every content <name>.key ever held

vars == << pc, serial, environ, dh_max_age, ini, force_crt_update,
           keyf, csrf, crtf, bak_key, bak_crt, dhparam, certs, notifies,
           idx, changed, signed_crt, counter, run, prior, signalled,
           everKeys >>

\* The material a name had before the pipeline run that is writing, or has
\* just written, its certificate.
NoPrior == [name |-> "", key |-> NoKey, crt |-> 0]

Init ==
    /\ pc = "update_dhparam"
    /\ \E v \in Starts :
         /\ dh_max_age = v.dh_max_age
         /\ keyf = v.keyf
         /\ csrf = v.csrf
         /\ crtf = v.crtf
         /\ serial = v.serial
    /\ environ \in Environments
    /\ dh_max_age \in DhMaxAges
    /\ ini \in IniFiles
    /\ force_crt_update = FALSE
    /\ bak_key = {}
    /\ bak_crt = {}
    /\ dhparam = -1
    /\ certs = <<>>
    /\ notifies = <<>>
    /\ idx = 1
    /\ changed = FALSE
    /\ signed_crt = NoCrt
    /\ counter = 0
    /\ run = [n \in Names |-> "none"]
    /\ prior = NoPrior
    /\ signalled = <<>>
    /\ everKeys = [n \in Names |-> {}]

\* ------------------------------------------------------------------ helpers
\* The age of a file one day later.
older(age) == IF age < MaxAge THEN age + 1 ELSE MaxAge

\* sorted(...) of a set of domains.
RECURSIVE sorted(_)
sorted(S) ==
    IF S = {} THEN <<>>
    ELSE LET m == CHOOSE x \in S : \A y \in S : x <= y
         IN  <<m>> \o sorted(S \ {m})

\* domain_list without set() and sorted(): the non-empty entries as written.
domain_list_as_written(value) == SelectSeq(value, LAMBDA d : d # 0)

\* sorted(filter(len, set(value.split(","))))
domain_list(value) == sorted({value[i] : i \in DOMAIN value} \ {0})

\* A dict in insertion order: a sequence of [name, value] without repeated
\* names.  d[k] = v keeps the position of a name that is already there.
dict_has(d, k) == \E i \in DOMAIN d : d[i].name = k
dict_set(d, k, v) ==
    IF dict_has(d, k)
    THEN [i \in DOMAIN d |->
            IF d[i].name = k THEN [name |-> k, value |-> v] ELSE d[i]]
    ELSE Append(d, [name |-> k, value |-> v])
dict_get(d, k) == d[CHOOSE i \in DOMAIN d : d[i].name = k].value

\* shutil.copyfile into the backup directory, under a file name made of the
\* timestamp and the name.
copyfile(bak, name, id) == bak \cup {[name |-> name, id |-> id]}

\* ---------------------------------------------------------------- Aggregate
\* The loop over os.environ, lines 229-234.
RECURSIVE env_certs(_, _)
env_certs(env, c) ==
    IF env = <<>> THEN c
    ELSE env_certs(Tail(env),
                   dict_set(c, Head(env).name, domain_list(Head(env).value)))

\* The loop over config.sections(), lines 241-244; a missing key raises
\* KeyError, which ends the loop and keeps what was assigned before it.
RECURSIVE read_sections(_, _, _)
read_sections(secs, c, n) ==
    IF secs = <<>> THEN [certs |-> c, notifies |-> n]
    ELSE LET s == Head(secs)
             c2 == dict_set(c, s.name, domain_list(s.domains))
         IN  IF ~s.has_domains THEN [certs |-> c, notifies |-> n]
             ELSE IF ~s.has_notify THEN [certs |-> c2, notifies |-> n]
             ELSE read_sections(Tail(secs), c2,
                                dict_set(n, s.name, s.notify))

\* aggregate with the environment read after the file.
aggregate_env_last ==
    LET f == IF ini.state = "ok" THEN read_sections(ini.sections, <<>>, <<>>)
             ELSE [certs |-> <<>>, notifies |-> <<>>]
    IN  [certs |-> env_certs(environ, f.certs), notifies |-> f.notifies]

\* Lines 227-247: certs and notifies of this pass.
aggregate ==
    LET c == env_certs(environ, <<>>)
    IN  IF ini.state = "ok" THEN read_sections(ini.sections, c, <<>>)
        ELSE [certs |-> c, notifies |-> <<>>]

\* How a pipeline run ends when one of its calls raises: in check_crt, in
\* create_key, in create_csr, in create_crt.
Errors == {"check_error", "key_error", "csr_error", "crt_error"}
\* The runs that failed after check_crt had returned False.
Failed == {"key_error", "csr_error", "crt_error"}

\* What is known of a name before its run of this pass: nothing, or, if the
\* run of the previous pass was on the same domains, that it failed, that
\* it skipped the certificate as valid, that it reissued the certificate.
Before == {"none", "failed", "valid", "fresh"}
before(result) ==
    IF result \in Failed THEN "failed"
    ELSE IF result = "skipped" THEN "valid"
    ELSE IF result = "issued" THEN "fresh"
    ELSE "none"

\* Where the main loop goes when the for loop is at position i.
loop_at(i, c) == IF i > Len(c) THEN "notify" ELSE "renew"

Aggregate ==
    /\ pc = "aggregate"
    /\ certs' = aggregate.certs
    /\ notifies' = aggregate.notifies
    /\ changed' = FALSE
    /\ idx' = 1
    /\ pc' = loop_at(1, certs')
    /\ run' = [n \in Names |->
                 IF /\ dict_has(certs, n) /\ dict_has(certs', n)
                    /\ dict_get(certs', n) = dict_get(certs, n)
                 THEN before(run[n]) ELSE "none"]
    /\ prior' = NoPrior
    /\ signalled' = <<>>
    /\ UNCHANGED << serial, environ, dh_max_age, ini, force_crt_update,
                    keyf, csrf, crtf, bak_key, bak_crt, dhparam, signed_crt,
                    counter, everKeys >>

\* ------------------------------------------------------------ update_dhparam
\* UpdateDhparam without the test of DH_MAX_AGE: an absent file is made.
UpdateDhparam_unset_too ==
    /\ pc = "update_dhparam"
    /\ \E ok \in BOOLEAN :
         IF dhparam # -1 /\ (dh_max_age = DhUnset \/ dhparam < dh_max_age)
         THEN pc' = "aggregate" /\ dhparam' = dhparam
         ELSE IF ok THEN pc' = "aggregate" /\ dhparam' = 0
         ELSE pc' = "terminated" /\ dhparam' = dhparam
    /\ UNCHANGED << serial, environ, dh_max_age, ini, force_crt_update,
                    keyf, csrf, crtf, bak_key, bak_crt, certs, notifies, idx,
                    changed, signed_crt, counter, run, prior, signalled,
                    everKeys >>

\* Lines 176-198, called at line 224 outside of any try: the IOError of a
\* failed openssl dhparam ends the process.
UpdateDhparam ==
    /\ pc = "update_dhparam"
    /\ \E ok \in BOOLEAN :
         IF dh_max_age = DhUnset
            \/ (dhparam # -1 /\ dhparam < dh_max_age)
         THEN pc' = "aggregate" /\ dhparam' = dhparam
         ELSE IF ok THEN pc' = "aggregate" /\ dhparam' = 0
         ELSE pc' = "terminated" /\ dhparam' = dhparam
    /\ UNCHANGED << serial, environ, dh_max_age, ini, force_crt_update,
                    keyf, csrf, crtf, bak_key, bak_crt, certs, notifies, idx,
                    changed, signed_crt, counter, run, prior, signalled,
                    everKeys >>

\* ------------------------------------------------------------ the pipeline
\* The call that fails in one pipeline run, if any: openssl req -text on the
\* CSR, openssl x509 -startdate on the certificate, openssl genrsa, openssl
\* req -new, acme_tiny.get_crt, urlopen of the intermediate.
Faults == {"none", "inspect_csr", "inspect_crt", "genrsa", "req",
           "get_crt", "urlopen"}

\* The domains check_crt reads out of the text dump of a CSR: the DNS
\* entries of its Subject Alternative Name, sorted (lines 54-57).
csr_domains(csr) == sorted({csr.san[i] : i \in DOMAIN csr.san})

\* check_crt, lines 34-77: "True", "False" or "IOError".
check_crt(name, domains, fault) ==
    IF crtf[name].id = 0 \/ ~csrf[name].present THEN "False"
    ELSE IF fault = "inspect_csr" THEN "IOError"
    ELSE IF csr_domains(csrf[name]) # domains THEN "False"
    ELSE IF fault = "inspect_crt" \/ crtf[name].id = -1 THEN "IOError"
    ELSE IF crtf[name].age < crt_max_age THEN "True"
    ELSE "False"

exist_key(name) == keyf[name] # NoKey

exist_crt(name) == crtf[name].id # 0

\* The files a pipeline run works on, the serial numbers used so far, how
\* far the run got and the calls of openssl, of the ACME client and of
\* urlopen it has made, each under the name of its fault.
files(result) ==
    [result |-> result, keyf |-> keyf, csrf |-> csrf, crtf |-> crtf,
     bak_key |-> bak_key, bak_crt |-> bak_crt, serial |-> serial,
     signed_crt |-> signed_crt, calls |-> <<>>]

\* The calls of openssl check_crt makes, lines 42-72.
inspect_calls(name, domains, fault) ==
    IF crtf[name].id = 0 \/ ~csrf[name].present THEN <<>>
    ELSE IF fault = "inspect_csr" \/ csr_domains(csrf[name]) # domains
         THEN <<"inspect_csr">>
    ELSE <<"inspect_csr", "inspect_crt">>

\* create_key, lines 84-103: the copy of an existing key comes first, the
\* key file is written when genrsa has succeeded.
create_key(name, fault) ==
    LET bak == IF exist_key(name) THEN copyfile(bak_key, name, keyf[name])
               ELSE bak_key
    IN  IF fault = "genrsa"
        THEN [files("key_error") EXCEPT !.bak_key = bak,
                                        !.calls = <<"genrsa">>]
        ELSE [files("ok") EXCEPT !.bak_key = bak,
                                 !.calls = <<"genrsa">>,
                                 !.keyf = [keyf EXCEPT
                                              ![name] = serial[name].key + 1],
                                 !.serial = [serial EXCEPT ![name].key = @ + 1]]

\* ensure_key with a key generated in every run and written over the key
\* file without a copy.
ensure_key_overwrite(name, fault) ==
    IF fault = "genrsa"
    THEN [files("key_error") EXCEPT !.calls = <<"genrsa">>]
    ELSE [files("ok") EXCEPT !.calls = <<"genrsa">>,
                             !.keyf = [keyf EXCEPT
                                         ![name] = serial[name].key + 1],
                             !.serial = [serial EXCEPT ![name].key = @ + 1]]

\* ensure_key without the test of exist_key.
ensure_key_always(name, fault) == create_key(name, fault)

\* Lines 256-259: "create key if not exist".
ensure_key(name, fault) ==
    IF ~exist_key(name) THEN create_key(name, fault) ELSE files("ok")

\* create_csr that goes on with the CSR file as it is when openssl req fails.
create_csr_ignores_error(f, name, domains, fault) ==
    IF fault = "req" \/ domains = <<>> \/ f.keyf[name] = NoKey
    THEN [f EXCEPT !.calls = Append(@, "req")]
    ELSE [f EXCEPT !.calls = Append(@, "req"),
                   !.csrf = [f.csrf EXCEPT ![name] =
                       [present |-> TRUE, key |-> f.keyf[name],
                        san |-> domains]]]

\* create_csr, lines 106-128, on the files f: openssl req fails on an
\* empty subjectAltName and without the key file.
create_csr(f, name, domains, fault) ==
    IF fault = "req" \/ domains = <<>> \/ f.keyf[name] = NoKey
    THEN [f EXCEPT !.result = "csr_error", !.calls = Append(@, "req")]
    ELSE [f EXCEPT !.calls = Append(@, "req"),
                   !.csrf = [f.csrf EXCEPT ![name] =
                       [present |-> TRUE, key |-> f.keyf[name],
                        san |-> domains]]]

\* The calls create_crt makes, lines 143-150: the ACME client, and urlopen
\* when the client has returned a certificate and CHAINED_CRT is "true".
ca_calls(f, name, fault) ==
    IF fault = "get_crt" \/ ~f.csrf[name].present \/ chained_crt # "true"
    THEN <<"get_crt">>
    ELSE <<"get_crt", "urlopen">>

\* create_crt with the certificate file opened for writing before the CA is
\* asked.
create_crt_open_first(f, name, fault) ==
    LET bak == IF exist_crt(name) THEN copyfile(f.bak_crt, name, crtf[name].id)
               ELSE f.bak_crt
        opened == [f.crtf EXCEPT ![name] = EmptyCrt]
    IN  IF fault = "get_crt" \/ ~f.csrf[name].present
           \/ (chained_crt = "true" /\ fault = "urlopen")
        THEN [f EXCEPT !.result = "crt_error", !.bak_crt = bak,
                       !.calls = @ \o ca_calls(f, name, fault),
                       !.crtf = opened]
        ELSE [f EXCEPT !.result = "writing", !.bak_crt = bak,
                       !.calls = @ \o ca_calls(f, name, fault),
                       !.serial = [f.serial EXCEPT ![name].crt = @ + 1],
                       !.crtf = opened,
                       !.signed_crt =
                           [id |-> f.serial[name].crt + 1,
                            san |-> f.csrf[name].san,
                            age |-> 0, chain |-> chained_crt = "true"]]

\* create_crt without the copy of the existing certificate.
create_crt_no_copy(f, name, fault) ==
    IF fault = "get_crt" \/ ~f.csrf[name].present
       \/ (chained_crt = "true" /\ fault = "urlopen")
    THEN [f EXCEPT !.result = "crt_error",
                   !.calls = @ \o ca_calls(f, name, fault)]
    ELSE [f EXCEPT !.result = "writing",
                   !.calls = @ \o ca_calls(f, name, fault),
                   !.serial = [f.serial EXCEPT ![name].crt = @ + 1],
                   !.crtf = [f.crtf EXCEPT ![name] = EmptyCrt],
                   !.signed_crt =
                       [id |-> f.serial[name].crt + 1,
                        san |-> f.csrf[name].san,
                        age |-> 0, chain |-> chained_crt = "true"]]

\* create_crt, lines 135-153, on the files f: the copy of an existing
\* certificate comes first; the certificate file is opened for writing,
\* which empties it, when the CA has signed and the intermediate is there.
create_crt(f, name, fault) ==
    LET bak == IF exist_crt(name) THEN copyfile(f.bak_crt, name, crtf[name].id)
               ELSE f.bak_crt
    IN  IF fault = "get_crt" \/ ~f.csrf[name].present
           \/ (chained_crt = "true" /\ fault = "urlopen")
        THEN [f EXCEPT !.result = "crt_error", !.bak_crt = bak,
                       !.calls = @ \o ca_calls(f, name, fault)]
        ELSE [f EXCEPT !.result = "writing", !.bak_crt = bak,
                       !.calls = @ \o ca_calls(f, name, fault),
                       !.serial = [f.serial EXCEPT ![name].crt = @ + 1],
                       !.crtf = [f.crtf EXCEPT ![name] = EmptyCrt],
                       !.signed_crt =
                           [id |-> f.serial[name].crt + 1,
                            san |-> f.csrf[name].san,
                            age |-> 0, chain |-> chained_crt = "true"]]

\* pipeline with the CSR generated before the certificate is evaluated.
pipeline_csr_on_skip(name, domains, fault) ==
    LET valid == check_crt(name, domains, fault)
        k == ensure_key(name, fault)
        c == create_csr(k, name, domains, fault)
        r == IF valid = "True"
             THEN [create_csr(files("ok"), name, domains, fault)
                       EXCEPT !.result = "skipped"]
             ELSE IF valid = "IOError" THEN files("check_error")
             ELSE IF k.result # "ok" THEN k
             ELSE IF c.result # "ok" THEN c
             ELSE create_crt(c, name, fault)
    IN  [r EXCEPT !.calls = inspect_calls(name, domains, fault) \o @]

\* The body of the for loop, lines 251-267.
pipeline(name, domains, fault) ==
    LET valid == check_crt(name, domains, fault)
        k == ensure_key(name, fault)
        c == create_csr(k, name, domains, fault)
        r == IF valid = "True" THEN files("skipped")
             ELSE IF valid = "IOError" THEN files("check_error")
             ELSE IF k.result # "ok" THEN k
             ELSE IF c.result # "ok" THEN c
             ELSE create_crt(c, name, fault)
    IN  [r EXCEPT !.calls = inspect_calls(name, domains, fault) \o @]

\* after_error with the error leaving the for loop.
after_error_abort(i) == Len(certs) + 1

\* Lines 269-272: the error is logged and the for loop goes on with the
\* certificate after the one at position i.
after_error(i) == i + 1

\* One turn of the for loop, up to the opening of the certificate file.
RenewOne ==
    /\ pc = "renew"
    /\ idx <= Len(certs)
    /\ \E fault \in Faults :
         LET name == certs[idx].name
             domains == certs[idx].value
             f == pipeline(name, domains, fault)
         IN  /\ f.serial[name].key <= MaxSerial
             /\ f.serial[name].crt <= MaxSerial
             /\ keyf' = f.keyf
             /\ csrf' = f.csrf
             /\ crtf' = f.crtf
             /\ bak_key' = f.bak_key
             /\ bak_crt' = f.bak_crt
             /\ serial' = f.serial
             /\ signed_crt' = f.signed_crt
             /\ everKeys' = [everKeys EXCEPT
                               ![name] = @ \cup ({f.keyf[name]} \ {NoKey})]
             /\ run' = [run EXCEPT ![name] = f.result]
             /\ prior' = IF f.result = "writing"
                         THEN [name |-> name, key |-> keyf[name],
                               crt |-> crtf[name].id]
                         ELSE NoPrior
             /\ idx' = IF f.result = "writing" THEN idx
                       ELSE IF f.result = "skipped" THEN idx + 1
                       ELSE after_error(idx)
             /\ pc' = IF f.result = "writing" THEN "write"
                      ELSE loop_at(idx', certs)
    /\ UNCHANGED << environ, dh_max_age, ini, force_crt_update, dhparam,
                    certs, notifies, changed, counter, signalled >>

\* Lines 152-153 and 267: the chain is written into the opened file.
WriteCrt ==
    /\ pc = "write"
    /\ crtf' = [crtf EXCEPT ![certs[idx].name] = signed_crt]
    /\ signed_crt' = NoCrt
    /\ changed' = TRUE
    /\ run' = [run EXCEPT ![certs[idx].name] = "issued"]
    /\ idx' = idx + 1
    /\ pc' = loop_at(idx', certs)
    /\ UNCHANGED << serial, environ, dh_max_age, ini, force_crt_update,
                    keyf, csrf, bak_key, bak_crt, dhparam, certs, notifies,
                    counter, prior, signalled, everKeys >>

\* ------------------------------------------------------------------- Notify
\* notify_container, lines 156-173: a docker kill per container of the
\* list; a failing one is logged.
notify_container(container_list) == container_list

\* notify_all that returns after the first entry of notifies.
notify_all_first_only(n) ==
    IF n = <<>> THEN <<>> ELSE notify_container(Head(n).value)

\* The for loop of lines 280-282.
RECURSIVE notify_all(_)
notify_all(n) ==
    IF n = <<>> THEN <<>>
    ELSE notify_container(Head(n).value) \o notify_all(Tail(n))

\* Lines 275-285.
Notify ==
    /\ pc = "notify"
    /\ signalled' = IF changed
                    THEN notify_container(container_notify)
                             \o notify_all(notifies)
                    ELSE <<>>
    /\ counter' = WaitCeiling
    /\ pc' = "wait"
    /\ UNCHANGED << serial, environ, dh_max_age, ini, force_crt_update,
                    keyf, csrf, crtf, bak_key, bak_crt, dhparam, certs,
                    notifies, idx, changed, signed_crt, run, prior, everKeys >>

\* --------------------------------------------------------------------- Wait
\* The condition of the wait loop without the test of the marker.
waiting_ignores_marker == counter > 0

\* The condition of the wait loop, line 286.
waiting == counter > 0 /\ ~force_crt_update

\* Lines 286-288: one turn of the wait loop.
WaitTick ==
    /\ pc = "wait"
    /\ waiting
    /\ counter' = counter - 1
    /\ UNCHANGED << pc, serial, environ, dh_max_age, ini, force_crt_update,
                    keyf, csrf, crtf, bak_key, bak_crt, dhparam, certs,
                    notifies, idx, changed, signed_crt, run, prior, signalled,
                    everKeys >>

\* Line 286: the condition of the wait loop is false.
WaitExit ==
    /\ pc = "wait"
    /\ ~waiting
    /\ pc' = "force"
    /\ UNCHANGED << serial, environ, dh_max_age, ini, force_crt_update,
                    keyf, csrf, crtf, bak_key, bak_crt, dhparam, certs,
                    notifies, idx, changed, signed_crt, counter, run, prior,
                    signalled, everKeys >>

\* Lines 290-292, and back to line 222.  What is left of the counter is
\* not read again: line 285 sets it before the next wait loop.
ForceUpdate ==
    /\ pc = "force"
    /\ force_crt_update' = FALSE
    /\ counter' = 0
    /\ pc' = "update_dhparam"
    /\ UNCHANGED << serial, environ, dh_max_age, ini, keyf, csrf, crtf,
                    bak_key, bak_crt, dhparam, certs, notifies, idx, changed,
                    signed_crt, run, prior, signalled, everKeys >>

\* ---------------------------------------------------------- the environment
\* An operator creates tmp/force_crt_update.
CreateMarker ==
    /\ ~force_crt_update
    /\ pc # "terminated"
    /\ force_crt_update' = TRUE
    /\ UNCHANGED << pc, serial, environ, dh_max_age, ini, keyf, csrf,
                    crtf, bak_key, bak_crt, dhparam, certs, notifies, idx,
                    changed, signed_crt, counter, run, prior, signalled,
                    everKeys >>

\* tmp/crt_domains.ini is replaced.  The loop reads the file in Aggregate
\* only, so what it sees is the last replacement before that.
ChangeIni ==
    /\ pc = "aggregate"
    /\ ini' \in IniFiles \ {ini}
    /\ UNCHANGED << pc, serial, environ, dh_max_age, force_crt_update,
                    keyf, csrf, crtf, bak_key, bak_crt, dhparam, certs,
                    notifies, idx, changed, signed_crt, counter, run, prior,
                    signalled, everKeys >>

\* A day passes for the certificate the for loop is about to evaluate.
\* Ages only grow and check_crt alone reads this one, so the days that
\* passed since the last evaluation are counted here.
CrtAges ==
    /\ pc = "renew"
    /\ idx <= Len(certs)
    /\ crtf[certs[idx].name].id > 0
    /\ crtf[certs[idx].name].age < MaxAge
    /\ crtf' = [crtf EXCEPT ![certs[idx].name].age = older(@)]
    /\ UNCHANGED << pc, serial, environ, dh_max_age, ini, force_crt_update,
                    keyf, csrf, bak_key, bak_crt, dhparam, certs, notifies,
                    idx, changed, signed_crt, counter, run, prior, signalled,
                    everKeys >>

\* A day passes for dhparam.pem, which update_dhparam alone reads.
DhAges ==
    /\ pc = "update_dhparam"
    /\ dhparam # -1
    /\ dhparam < MaxAge
    /\ dhparam' = older(dhparam)
    /\ UNCHANGED << pc, serial, environ, dh_max_age, ini, force_crt_update,
                    keyf, csrf, crtf, bak_key, bak_crt, certs, notifies, idx,
                    changed, signed_crt, counter, run, prior, signalled,
                    everKeys >>

Next ==
    \/ UpdateDhparam
    \/ Aggregate
    \/ RenewOne
    \/ WriteCrt
    \/ Notify
    \/ WaitTick
    \/ WaitExit
    \/ ForceUpdate
    \/ CreateMarker
    \/ ChangeIni
    \/ CrtAges
    \/ DhAges

Spec == Init /\ [][Next]_vars

\* ================================================================== claims
\* The names of the mapping of this pass that are, or were, reissued.
Issued == {n \in Names : dict_has(certs, n) /\ run[n] = "issued"}
\* The step is a pipeline run of n: its result appears.
Ran(n) == run[n] \in Before /\ run'[n] \notin Before
\* The domains a certificate names.
crt_domains(crt) == sorted({crt.san[i] : i \in DOMAIN crt.san})

\* C1: the main loop skips a certificate as valid only if the SAN set of
\* the installed certificate equals the configured domain set and the age
\* of the certificate is below the max-age threshold.
C1_SkipOnlyMatchingCrt ==
    [][\A n \in Names :
         (Ran(n) /\ run'[n] = "skipped") =>
             /\ crtf[n].id > 0
             /\ crt_domains(crtf[n]) = dict_get(certs, n)
             /\ crtf[n].age < crt_max_age]_vars

\* C2: a certificate whose pipeline run failed in key generation, CSR
\* generation or signing in one pass is, with unchanged domains, not skipped
\* in the next pass.
C2_FailedIsRetried ==
    [][\A n \in Names : run[n] = "failed" => run'[n] # "skipped"]_vars

\* C3: when the loop has reached Wait, every certificate of the mapping has
\* been evaluated in this pass, whatever failed on the others, and the
\* default targets and the targets of each reissued certificate have been
\* signalled.
C3_FailureIsolation ==
    pc = "wait" =>
        /\ \A i \in DOMAIN certs :
             run[certs[i].name] \in {"skipped", "issued"} \cup Errors
        /\ \A n \in Issued :
             /\ \A i \in DOMAIN container_notify :
                  \E j \in DOMAIN signalled :
                      signalled[j] = container_notify[i]
             /\ dict_has(notifies, n) =>
                  \A i \in DOMAIN dict_get(notifies, n) :
                      \E j \in DOMAIN signalled :
                          signalled[j] = dict_get(notifies, n)[i]
\* In Wait: a failed on its run, b, which comes after it, was reissued and
\* its target was signalled.
C3_Witness ==
    /\ pc = "wait"
    /\ Len(certs) = 2 /\ certs[1].name = "a"
    /\ run["a"] \in Errors
    /\ run["b"] = "issued"
    /\ \E j \in DOMAIN signalled : signalled[j] = "c2"

\* C4: a pipeline run that fails in create_crt (CA signing or intermediate
\* download) leaves the certificate file as it was.
C4_FailedSigningKeepsCrt ==
    [][\A n \in Names :
         (Ran(n) /\ run'[n] = "crt_error") => crtf'[n] = crtf[n]]_vars
\* A run failed in create_crt on a name that has a certificate installed.
C4_Witness ==
    \E n \in Names : run[n] = "crt_error" /\ crtf[n].id > 0

\* C5: every key content that <name>.key ever held is the content of
\* <name>.key or of a backup file of that name.
C5_KeyNeverLost ==
    \A n \in Names : \A k \in everKeys[n] :
        keyf[n] = k \/ [name |-> n, id |-> k] \in bak_key
\* A certificate was reissued for a name that had a key, which is still
\* there.
C5_Witness ==
    \E n \in Names :
        /\ run[n] = "issued" /\ prior.name = n
        /\ prior.key # NoKey /\ prior.key \in everKeys[n]
        /\ keyf[n] = prior.key

RECURSIVE targets_of(_, _)
targets_of(n, S) ==
    IF n = <<>> THEN <<>>
    ELSE (IF Head(n).name \in S THEN Head(n).value ELSE <<>>)
             \o targets_of(Tail(n), S)

C9_ForcedWake ==
    [][/\ (pc = "wait" /\ force_crt_update) =>
              (counter' = counter /\ pc' \in {"wait", "force"})
       /\ (pc # "wait" /\ pc' = "wait") => counter' = WaitCeiling
       /\ (pc = "wait" /\ pc' = "wait" /\ counter' # counter) =>
              (counter' = counter - 1 /\ ~force_crt_update)
       /\ (pc = "wait" /\ pc' # "wait") =>
              (pc' = "force" /\ (force_crt_update \/ counter = 0))
       /\ (pc = "force" /\ pc' # "force") =>
              (pc' = "update_dhparam" /\ ~force_crt_update')]_vars
\* The wait was left for the marker with ticks to go.
C9_Witness ==
    pc = "force" /\ force_crt_update /\ counter > 0

\* C10: the loop has no terminal state, whichever operation fails.
C10_NoTerminalState == pc # "terminated"

\* The loop is past Aggregate: certs and notifies are those of this pass and
\* the file is the one they were read from.
Aggregated == pc \in {"renew", "write", "notify", "wait", "force"}
\* The names the environment defines, and the sections of the file.
EnvNames == {environ[i].name : i \in DOMAIN environ}
FileNames == {ini.sections[i].name : i \in DOMAIN ini.sections}
\* The file is there and each of its sections has both keys.
WellFormed ==
    /\ ini.state = "ok"
    /\ \A i \in DOMAIN ini.sections :
         ini.sections[i].has_domains /\ ini.sections[i].has_notify
\* The non-empty entries of a comma separated list.
entries(value) == {value[i] : i \in DOMAIN value} \ {0}

\* C11: when the file is read without error, a name defined by the
\* environment and by a section of the file has the domains and the notify
\* targets of the section; a name defined by the environment only has the
\* domains of the environment and no notify targets of its own.
C11_FileOverridesEnv ==
    Aggregated =>
        /\ WellFormed =>
              \A i \in DOMAIN ini.sections :
                  LET s == ini.sections[i]
                  IN  s.name \in EnvNames =>
                          /\ dict_has(certs, s.name)
                          /\ entries(dict_get(certs, s.name))
                                 = entries(s.domains)
                          /\ dict_has(notifies, s.name)
                          /\ dict_get(notifies, s.name) = s.notify
        /\ \A i \in DOMAIN environ :
              environ[i].name \notin FileNames =>
                  /\ dict_has(certs, environ[i].name)
                  /\ entries(dict_get(certs, environ[i].name))
                         = entries(environ[i].value)
                  /\ ~dict_has(notifies, environ[i].name)
\* Past Aggregate, with a well-formed file that gives a name of the
\* environment other domains: the mapping has those of the file.
C11_Witness ==
    /\ Aggregated /\ WellFormed
    /\ \E i \in DOMAIN ini.sections : \E j \in DOMAIN environ :
         /\ ini.sections[i].name = environ[j].name
         /\ entries(ini.sections[i].domains) # entries(environ[j].value)
         /\ entries(dict_get(certs, environ[j].name))
                = entries(ini.sections[i].domains)

\* C12: when the file is absent or reading its sections raises, certs and
\* notifies are those of the environment alone.
C12_FallbackToEnv ==
    (Aggregated /\ ~WellFormed) =>
        /\ certs = env_certs(environ, <<>>)
        /\ notifies = <<>>

\* C13: whoever reads <name>.crt, at any moment, reads a certificate (the
\* one before the reissue or the new chain), never an empty or half-written
\* file.
C13_NeverEmptyCrt == \A n \in Names : crtf[n].id # -1

\* C15: a certificate whose key file is absent is not skipped as valid.
C15_NoSkipWithoutKey ==
    [][\A n \in Names :
         (Ran(n) /\ keyf[n] = NoKey) => run'[n] # "skipped"]_vars

\* C17: a pipeline run in which signing fails adds no backup copy of the
\* certificate.
C17_NoBackupOnFailedSigning ==
    [][\A n \in Names :
         (Ran(n) /\ run'[n] = "crt_error") => bak_crt' = bak_crt]_vars

\* The step is a pipeline run of n in which the call named by fault fails
\* (or none, for "none").
Taken(n, fault) ==
    LET f == pipeline(n, dict_get(certs, n), fault)
    IN  /\ Ran(n)
        /\ run'[n] = f.result
        /\ keyf' = f.keyf /\ csrf' = f.csrf /\ crtf' = f.crtf
        /\ bak_key' = f.bak_key /\ bak_crt' = f.bak_crt
\* The step leaves the files of crt/ and of crt/backup/ as they are.
FilesKept ==
    /\ keyf' = keyf /\ csrf' = csrf /\ crtf' = crtf
    /\ bak_key' = bak_key /\ bak_crt' = bak_crt
\* The elements of a sequence.
Range(q) == {q[i] : i \in DOMAIN q}

\* C14, as claimed: the pipeline run of a certificate that the previous
\* pass skipped as valid, on the same domains and before the certificate
\* grows a day older, leaves changed and the files as they are and makes no
\* call of the toolkit at all.
C14_SecondRunNoCalls ==
    [][\A n \in Names :
         (Ran(n) /\ run[n] = "valid" /\ crtf[n].age < crt_max_age) =>
             /\ changed' = changed
             /\ FilesKept
             /\ \A fault \in Faults :
                  Taken(n, fault) =>
                      pipeline(n, dict_get(certs, n), fault).calls = <<>>]_vars
\* C14, amended: such a run leaves changed and the files as they are and
\* makes the introspection calls of check_crt and no other call: no key
\* generation, no CSR generation, no signing.
C14_SecondRunInspectsOnly ==
    [][\A n \in Names :
         (Ran(n) /\ run[n] = "valid" /\ crtf[n].age < crt_max_age) =>
             /\ changed' = changed
             /\ FilesKept
             /\ run'[n] \in {"skipped", "check_error"}
             /\ \A fault \in Faults :
                  Taken(n, fault) =>
                      LET calls == pipeline(n, dict_get(certs, n), fault).calls
                      IN  /\ calls # <<>>
                          /\ Range(calls) \subseteq
                                 {"inspect_csr", "inspect_crt"}]_vars
\* The for loop is at a certificate that the previous pass skipped as valid
\* and that is still young enough: its second run in succession is next.
C14_Witness ==
    /\ pc = "renew" /\ idx <= Len(certs)
    /\ run[certs[idx].name] = "valid"
    /\ crtf[certs[idx].name].age < crt_max_age

\* C16: whichever call fails, the pipeline run of the certificate the for
\* loop is at calls the ACME client only after it has called openssl req,
\* and then <name>.csr holds exactly the configured domains and is made
\* with the key of <name>.key, which is there; a run that fails in the key
\* or in the CSR step does not call the ACME client and leaves the
\* certificate and the backups alone.
C16_SignAfterCsr ==
    (pc = "renew" /\ idx <= Len(certs)) =>
        \A fault \in Faults :
            LET n == certs[idx].name
                f == pipeline(n, certs[idx].value, fault)
            IN  /\ "get_crt" \in Range(f.calls) =>
                      /\ \E i, j \in DOMAIN f.calls :
                           /\ i < j
                           /\ f.calls[i] = "req" /\ f.calls[j] = "get_crt"
                      /\ f.result \in {"crt_error", "writing"}
                      /\ f.keyf[n] # NoKey
                      /\ f.csrf[n] = [present |-> TRUE, key |-> f.keyf[n],
                                      san |-> certs[idx].value]
                /\ f.result \in {"key_error", "csr_error"} =>
                      /\ "get_crt" \notin Range(f.calls)
                      /\ f.serial[n].crt = serial[n].crt
                      /\ f.crtf = crtf /\ f.bak_crt = bak_crt
\* The ACME client has signed: the certificate is being written, and the
\* CSR is the one of the configured domains and of the key.
C16_Witness ==
    \E n \in Names :
        /\ pc = "write" /\ run[n] = "writing"
        /\ keyf[n] # NoKey
        /\ csrf[n] = [present |-> TRUE, key |-> keyf[n],
                      san |-> dict_get(certs, n)]
        /\ signed_crt.san = dict_get(certs, n)

\* The DH parameter file is made in this step.
Regenerated == dhparam' = 0 /\ dhparam' # dhparam
\* DH_MAX_AGE is set and the file is absent or not younger than that.
DhDue == dh_max_age # DhUnset /\ (dhparam = -1 \/ dhparam >= dh_max_age)

\* C18: the DH parameter file is made only by the step that starts a pass,
\* which comes once per pass and before Aggregate, and only when it is due;
\* that step, unless it ends the process, makes the file if it is due; with
\* DH_MAX_AGE unset the file is never touched.
C18_DhRefresh ==
    [][/\ Regenerated =>
              (pc = "update_dhparam" /\ pc' = "aggregate" /\ DhDue)
       /\ (pc = "update_dhparam" /\ pc' = "aggregate" /\ DhDue) =>
              Regenerated
       /\ (pc = "update_dhparam" /\ pc' # pc) =>
              pc' \in {"aggregate", "terminated"}
       /\ (pc # "update_dhparam" /\ pc' = "update_dhparam") => pc = "force"
       /\ dh_max_age = DhUnset => dhparam' = dhparam]_vars
\* A later pass is past its first step with DH_MAX_AGE set and a DH
\* parameter file younger than a day.
C18_Witness ==
    /\ pc = "aggregate" /\ dh_max_age # DhUnset /\ dhparam = 0
    /\ \E n \in Names : run[n] \in {"skipped", "issued"}

\* C19: a marker that was created is removed by the loop; so the loop never
\* ends with the marker in place.
C19_MarkerNotStranded == ~(pc = "terminated" /\ force_crt_update)

\* C20: the pipeline run of a certificate that the previous pass reissued, on
\* the same domains and before the certificate is a day old, finds it valid
\* and skips it (or stops at a failing introspection call): it leaves
\* changed and the files as they are and makes no call but those of
\* check_crt.
C20_SkipAfterIssue ==
    [][\A n \in Names :
         (Ran(n) /\ run[n] = "fresh" /\ crtf[n].age < crt_max_age) =>
             /\ check_crt(n, dict_get(certs, n), "none") = "True"
             /\ run'[n] \in {"skipped", "check_error"}
             /\ changed' = changed
             /\ FilesKept
             /\ serial' = serial
             /\ \A fault \in Faults :
                  Taken(n, fault) =>
                      Range(pipeline(n, dict_get(certs, n), fault).calls)
                          \subseteq {"inspect_csr", "inspect_crt"}]_vars
\* The for loop is at a certificate that the previous pass reissued and
\* that is not a day old: the run that is to skip it is next.
C20_Witness ==
    /\ pc = "renew" /\ idx <= Len(certs)
    /\ run[certs[idx].name] = "fresh"
    /\ crtf[certs[idx].name].age < crt_max_age
    /\ crtf[certs[idx].name].id = serial[certs[idx].name].crt

====
